---- MODULE Spec2Model ----
(***************************************************************************)
(* CircularBuffer<T, cap> and its CircularBufferIterator                   *)
(* (src/encryption.hpp), modelled as a state machine.                      *)
(*                                                                         *)
(* Storage positions are integers: position i is c.begin() + i, so the     *)
(* container's begin() is position 0 and its end() is position _capacity.  *)
(***************************************************************************)
EXTENDS Integers, Sequences, FiniteSets, TLC

\* ---- bounds of the model ------------------------------------------------
MaxCap == 3      \* template argument cap ranges over 1..MaxCap
MaxAdv == 5      \* an iterator is advanced at most MaxAdv times
MaxK == 2        \* a run of pushes is recorded up to cap + MaxK values
MaxMut == 1      \* mutating calls made while one traversal is in progress

Values == {1, 2}   \* element values

VARIABLES
    buf,      \* the CircularBuffer object: c, _head, _tail, _size, _current, _capacity
    last,     \* the last member function called and how it ended
    it,       \* the iterator of the traversal loop
    jt,       \* a second iterator obtained from begin() together with it
    pc,       \* position of the traversal loop: "idle", "running", "finished"
    yielded,  \* storage positions the traversal loop has dereferenced so far
    itN,      \* number of ++ applied to it
    jtN,      \* number of ++ applied to jt
    muts,     \* number of mutating calls since it and jt were obtained
    fifo,     \* history: the abstract bounded FIFO the buffer implements
    pushed,   \* history: values pushed since the buffer was last empty
    pure      \* history: only push_back calls since the buffer was last empty

vars == <<buf, last, it, jt, pc, yielded, itN, jtN, muts, fifo, pushed, pure>>

\* no mutating call since it and jt were obtained
fresh == muts = 0

\* a mutating call may be made: no traversal in progress, or budget left
MayMutate == pc = "idle" \/ muts < MaxMut

\* the mutation count after a mutating call
Mutated == IF pc = "idle" THEN 0 ELSE muts + 1

\* ---- CircularBuffer -----------------------------------------------------

\* CircularBuffer(): counters zeroed; the std::array member c is left
\* default-initialised, so each slot holds an arbitrary value.
CircularBuffer(cap, store) ==
    [c |-> store, _head |-> 0, _tail |-> 0, _size |-> 0, _current |-> 0,
     _capacity |-> cap]

\* std::array::at(i) throws std::out_of_range unless 0 <= i < cap.
at_ok(b, i) == i >= 0 /\ i < b._capacity

size(b) == b._size

capacity(b) == b._capacity

empty(b) == size(b) <= 0

full(b) == size(b) >= b._capacity

\* T& head(): c.at(_head)
head(b) ==
    IF at_ok(b, b._head) THEN [err |-> "none", slot |-> b._head]
    ELSE [err |-> "out_of_range", slot |-> -1]

\* T& tail(): c.at(_tail)
tail(b) ==
    IF at_ok(b, b._tail) THEN [err |-> "none", slot |-> b._tail]
    ELSE [err |-> "out_of_range", slot |-> -1]

\* push_index with the reset test off by one (_current > _capacity)
push_index_late_reset(b) == IF b._current > b._capacity THEN 0 ELSE b._current

\* The index push_back writes to: _current after the reset of line 41-43.
push_index(b) == IF b._current >= b._capacity THEN 0 ELSE b._current

\* push_back that leaves _head alone when it overwrites the oldest element
push_back_head_kept(b, val) ==
    LET cur == IF b._current >= b._capacity THEN 0 ELSE b._current IN
    [buf |-> [b EXCEPT !.c[cur] = val, !._current = cur + 1, !._tail = cur,
                       !._size = IF b._size >= b._capacity
                                 THEN b._capacity ELSE b._size + 1],
     err |-> "none"]

\* push_back whose fullness test is off by one (_size++ > _capacity)
push_back_late_full(b, val) ==
    LET cur == IF b._current >= b._capacity THEN 0 ELSE b._current
        b1 == [b EXCEPT !.c[cur] = val, !._current = cur + 1, !._tail = cur]
    IN [buf |-> IF b._size > b._capacity
                THEN [b1 EXCEPT !._size = b._capacity,
                                !._head = IF b._head + 1 >= b._capacity
                                          THEN 0 ELSE b._head + 1]
                ELSE [b1 EXCEPT !._size = b._size + 1],
        err |-> "none"]


\* push_back that sets _tail from _current after the increment (_tail = _current)
push_back_tail_ahead(b, val) ==
    LET cur == IF b._current >= b._capacity THEN 0 ELSE b._current
        b1 == [b EXCEPT !.c[cur] = val, !._current = cur + 1, !._tail = cur + 1]
    IN [buf |-> IF b._size >= b._capacity
                THEN [b1 EXCEPT !._size = b._capacity,
                                !._head = IF b._head + 1 >= b._capacity
                                          THEN 0 ELSE b._head + 1]
                ELSE [b1 EXCEPT !._size = b._size + 1],
        err |-> "none"]


\* push_back without the clamp of _size (no _size = _capacity)
push_back_no_clamp(b, val) ==
    LET cur == IF b._current >= b._capacity THEN 0 ELSE b._current
        b1 == [b EXCEPT !.c[cur] = val, !._current = cur + 1, !._tail = cur,
                        !._size = b._size + 1]
    IN [buf |-> IF b._size >= b._capacity
                THEN [b1 EXCEPT !._head = IF b._head + 1 >= b._capacity
                                          THEN 0 ELSE b._head + 1]
                ELSE b1,
        err |-> "none"]


\* push_back without the wrap of _head to 0 when it overwrites
push_back_head_no_wrap(b, val) ==
    LET cur == IF b._current >= b._capacity THEN 0 ELSE b._current
        b1 == [b EXCEPT !.c[cur] = val, !._current = cur + 1, !._tail = cur]
    IN [buf |-> IF b._size >= b._capacity
                THEN [b1 EXCEPT !._size = b._capacity, !._head = b._head + 1]
                ELSE [b1 EXCEPT !._size = b._size + 1],
        err |-> "none"]

\* void push_back(T val) noexcept.  A throw of c.at inside the noexcept
\* function ends the program (std::terminate).
push_back(b, val) ==
    LET cur == push_index(b) IN
    IF ~at_ok(b, cur)
    THEN [buf |-> [b EXCEPT !._current = cur + 1], err |-> "terminate"]
    ELSE LET b1 == [b EXCEPT !.c[cur] = val, !._current = cur + 1, !._tail = cur]
             b2 == IF b._size >= b._capacity
                   THEN [b1 EXCEPT !._size = b._capacity,
                                   !._head = IF b._head + 1 >= b._capacity
                                             THEN 0 ELSE b._head + 1]
                   ELSE [b1 EXCEPT !._size = b._size + 1]
         IN [buf |-> b2, err |-> "none"]

\* place_back whose fullness test is off by one (size() > _capacity)
place_back_late_full(b, val) ==
    IF b._size > b._capacity THEN [buf |-> b, err |-> "overflow_error"]
    ELSE push_back(b, val)

\* void place_back(T val)
place_back(b, val) ==
    IF full(b) THEN [buf |-> b, err |-> "overflow_error"]
    ELSE push_back(b, val)

\* pop without the wrap of _head to 0
pop_no_wrap(b) ==
    IF b._size <= 0 THEN [buf |-> b, err |-> "underflow_error"]
    ELSE [buf |-> [b EXCEPT !._head = b._head + 1, !._size = b._size - 1],
          err |-> "none"]


\* pop that forgets to advance _head
pop_head_kept(b) ==
    IF b._size <= 0 THEN [buf |-> b, err |-> "underflow_error"]
    ELSE [buf |-> [b EXCEPT !._size = b._size - 1], err |-> "none"]


\* pop that rewinds the write cursor when it empties the buffer
pop_reset_cursor(b) ==
    IF b._size <= 0 THEN [buf |-> b, err |-> "underflow_error"]
    ELSE [buf |-> [b EXCEPT !._head = IF b._head + 1 >= b._capacity
                                      THEN 0 ELSE b._head + 1,
                            !._size = b._size - 1,
                            !._current = IF b._size = 1 THEN 0 ELSE b._current],
          err |-> "none"]

\* void pop()
pop(b) ==
    IF b._size <= 0 THEN [buf |-> b, err |-> "underflow_error"]
    ELSE [buf |-> [b EXCEPT !._head = IF b._head + 1 >= b._capacity
                                      THEN 0 ELSE b._head + 1,
                            !._size = b._size - 1],
          err |-> "none"]

\* ---- CircularBufferIterator ---------------------------------------------

\* CircularBufferIterator(buf, begin) and CircularBufferIterator(buf, begin, done)
CircularBufferIterator(pos, done) ==
    [_begin |-> pos, _cursor |-> pos, _done |-> done]

\* iterator begin()
begin(b) == CircularBufferIterator(b._head % b._capacity, FALSE)


\* end() with the offset parenthesised as (_tail + 1) % _capacity
end_wrapped(b) ==
    CircularBufferIterator((b._tail + 1) % b._capacity, full(b))

\* iterator end(): offset = _tail + 1 % _capacity, and % binds tighter than +
end(b) == CircularBufferIterator(b._tail + (1 % b._capacity), full(b))


\* operator++ that wraps one position late (_cursor > _buf.end())
preinc_late_wrap(i, b) ==
    LET c1 == i._cursor + 1
        c2 == IF c1 > b._capacity THEN 0 ELSE c1
    IN [i EXCEPT !._cursor = c2, !._done = (c2 = i._begin)]

\* operator++(): _buf is the std::array, whose end() is position _capacity
\* and whose begin() is position 0.
preinc(i, b) ==
    LET c1 == i._cursor + 1
        c2 == IF c1 = b._capacity THEN 0 ELSE c1
    IN [i EXCEPT !._cursor = c2, !._done = (c2 = i._begin)]

\* operator== that never finds an exhausted iterator equal to anything
op_eq_done_unequal(a, o) ==
    IF a._done \/ o._done THEN FALSE ELSE a._cursor = o._cursor

\* operator==
op_eq(a, o) ==
    IF a._done /\ o._done THEN TRUE
    ELSE IF ~a._done /\ ~o._done THEN a._cursor = o._cursor
    ELSE FALSE

\* operator!=
op_neq(a, o) == ~op_eq(a, o)

\* operator*: the storage position read through _cursor
deref(i) == i._cursor

\* ---- state machine ------------------------------------------------------

NoIt == [_begin |-> 0, _cursor |-> 0, _done |-> TRUE]

Halted == last.err = "terminate"

Init ==
    /\ \E cap \in 1..MaxCap :
         \E store \in [0..(cap - 1) -> Values] :
            buf = CircularBuffer(cap, store)
    /\ last = [op |-> "ctor", err |-> "none", slot |-> -1]
    /\ it = NoIt
    /\ jt = NoIt
    /\ pc = "idle"
    /\ yielded = <<>>
    /\ itN = 0
    /\ jtN = 0
    /\ muts = 0
    /\ fifo = <<>>
    /\ pushed = <<>>
    /\ pure = TRUE

\* history of the abstract FIFO on an insertion: drop the oldest when full
FifoPush(f, v, cp) == Append(IF Len(f) >= cp THEN Tail(f) ELSE f, v)

\* client calls push_back(v)
Push(v) ==
    /\ ~Halted
    /\ MayMutate
    /\ LET r == push_back(buf, v) IN
         /\ buf' = r.buf
         /\ last' = [op |-> "push_back", err |-> r.err, slot |-> -1]
    /\ muts' = Mutated
    /\ fifo' = FifoPush(fifo, v, buf._capacity)
    /\ IF pure /\ Len(pushed) < buf._capacity + MaxK
       THEN pushed' = Append(pushed, v) /\ pure' = TRUE
       ELSE pushed' = <<>> /\ pure' = FALSE
    /\ UNCHANGED <<it, jt, pc, yielded, itN, jtN>>

\* client calls place_back(v)
TryPush(v) ==
    /\ ~Halted
    /\ MayMutate
    /\ MayMutate
    /\ LET r == place_back(buf, v) IN
         /\ buf' = r.buf
         /\ last' = [op |-> "place_back", err |-> r.err, slot |-> -1]
         /\ IF r.err = "none"
            THEN /\ fifo' = FifoPush(fifo, v, buf._capacity)
                 /\ pushed' = <<>>
                 /\ pure' = FALSE
                 /\ muts' = Mutated
            ELSE UNCHANGED <<fifo, pushed, pure, muts>>
    /\ UNCHANGED <<it, jt, pc, yielded, itN, jtN>>

\* client calls pop()
Pop ==
    /\ ~Halted
    /\ MayMutate
    /\ LET r == pop(buf) IN
         /\ buf' = r.buf
         /\ last' = [op |-> "pop", err |-> r.err, slot |-> -1]
         /\ IF r.err = "none"
            THEN /\ fifo' = Tail(fifo)
                 /\ pushed' = <<>>
                 /\ pure' = (r.buf._size = 0)
                 /\ muts' = Mutated
            ELSE UNCHANGED <<fifo, pushed, pure, muts>>
    /\ UNCHANGED <<it, jt, pc, yielded, itN, jtN>>

\* client calls head()
Front ==
    /\ ~Halted
    /\ LET r == head(buf) IN
         last' = [op |-> "head", err |-> r.err, slot |-> r.slot]
    /\ UNCHANGED <<buf, it, jt, pc, yielded, itN, jtN, muts, fifo, pushed, pure>>

\* client calls tail()
Back ==
    /\ ~Halted
    /\ LET r == tail(buf) IN
         last' = [op |-> "tail", err |-> r.err, slot |-> r.slot]
    /\ UNCHANGED <<buf, it, jt, pc, yielded, itN, jtN, muts, fifo, pushed, pure>>

\* client starts a traversal: it = begin(), and a second iterator jt = begin()
Begin ==
    /\ ~Halted
    /\ it' = begin(buf)
    /\ jt' = begin(buf)
    /\ pc' = "running"
    /\ yielded' = <<>>
    /\ itN' = 0
    /\ jtN' = 0
    /\ muts' = 0
    /\ last' = [op |-> "begin", err |-> "none", slot |-> -1]
    /\ UNCHANGED <<buf, fifo, pushed, pure>>

\* one round of  while (it != end()) { yield *it; ++it; }
LoopStep ==
    /\ ~Halted
    /\ pc = "running"
    /\ IF op_neq(it, end(buf))
       THEN /\ itN < MaxAdv
            /\ yielded' = Append(yielded, deref(it))
            /\ it' = preinc(it, buf)
            /\ itN' = itN + 1
            /\ pc' = pc
       ELSE /\ pc' = "finished"
            /\ UNCHANGED <<yielded, it, itN>>
    /\ UNCHANGED <<buf, last, jt, jtN, muts, fifo, pushed, pure>>

\* ++jt: the second iterator follows the first over the unmodified buffer
Advance2 ==
    /\ ~Halted
    /\ pc # "idle"
    /\ fresh
    /\ jtN < itN
    /\ jt' = preinc(jt, buf)
    /\ jtN' = jtN + 1
    /\ UNCHANGED <<buf, last, it, pc, yielded, itN, muts, fifo, pushed, pure>>

Next ==
    \/ \E v \in Values : Push(v)
    \/ \E v \in Values : TryPush(v)
    \/ Pop
    \/ Front
    \/ Back
    \/ Begin
    \/ LoopStep
    \/ Advance2

Spec == Init /\ [][Next]_vars

\* ---- what a traversal is expected to produce ----------------------------

IsPrefix(s, t) == Len(s) <= Len(t) /\ \A i \in 1..Len(s) : s[i] = t[i]

LastN(s, n) == [i \in 1..n |-> s[Len(s) - n + i]]

\* positions of the live elements, oldest first: head, head+1, ... (mod capacity)
LivePositions(b) == [i \in 1..b._size |-> (b._head + i - 1) % b._capacity]

\* the values stored at the positions the traversal loop has dereferenced
YieldedValues == [i \in 1..Len(yielded) |-> buf.c[yielded[i]]]

\* a traversal of the unmodified buffer has started
Traversing == pc # "idle" /\ fresh

\* the traversal has produced a prefix of the sequence want, and all of it
\* once the loop has ended
Produces(got, want) ==
    /\ IsPrefix(got, want)
    /\ pc = "finished" => got = want

\* ---- claims -------------------------------------------------------------

\* C1: in every reachable buffer state, the loop from begin() to end() over
\* the unmodified buffer yields exactly the size() live elements, from the
\* one at head on, in insertion order, and nothing else (nothing at all for
\* an empty buffer).
C1_TraversalYieldsLiveElements ==
    Traversing =>
        /\ Produces(yielded, LivePositions(buf))
        /\ Produces(YieldedValues, fifo)

\* C2: a traversal of the unmodified buffer ends after at most Capacity
\* advances: the iterator is never advanced more than Capacity times, and
\* after Capacity advances it compares equal to end().
C2_TraversalFinite ==
    Traversing =>
        /\ itN <= buf._capacity
        /\ itN = buf._capacity => op_eq(it, end(buf))

\* C3: after n <= Capacity push calls of v1..vn into an empty buffer, the
\* loop from begin() to end() yields exactly v1..vn (nothing for n = 0).
C3_PushesThenTraversal ==
    (Traversing /\ pure /\ Len(pushed) <= buf._capacity) =>
        Produces(YieldedValues, pushed)

\* C4: after Capacity + k pushes (k >= 0 here, the claim's k >= 1 and its
\* round trip's k = 0) into an empty buffer, size() is Capacity and the loop
\* from begin() to end() ends after Capacity advances, having yielded the
\* last Capacity pushed values in insertion order.
C4_OverwriteKeepsLastCapacity ==
    (pure /\ Len(pushed) >= buf._capacity) =>
        /\ size(buf) = buf._capacity
        /\ Traversing =>
             /\ Produces(YieldedValues, LastN(pushed, buf._capacity))
             /\ itN <= buf._capacity
             /\ itN = buf._capacity => op_eq(it, end(buf))

C4_Witness ==
    /\ buf._capacity = 3
    /\ pure
    /\ Len(pushed) = buf._capacity + 2
    /\ Traversing
    /\ pc = "finished"
    /\ Len(yielded) = 3
    /\ buf._head = 2

\* C5: place_back fails with overflow_error exactly when size() == Capacity;
\* a failed call changes nothing of the buffer; a successful call leaves the
\* buffer as push_back would from the same state and value.
C5_PlaceBackOverflow ==
    [][\A v \in Values :
         TryPush(v) =>
            LET failed == last'.err = "overflow_error" IN
            /\ failed <=> size(buf) = buf._capacity
            /\ failed => buf' = buf
            /\ ~failed => /\ last'.err = "none"
                          /\ buf' = push_back(buf, v).buf]_vars

C5_Witness ==
    /\ last.op = "place_back"
    /\ last.err = "overflow_error"
    /\ size(buf) = buf._capacity
    /\ buf._capacity = 3

\* the values of the live elements, oldest first
Contents(b) == [i \in 1..b._size |-> b.c[LivePositions(b)[i]]]

\* C6: pop fails with underflow_error exactly when size() == 0 and then
\* changes nothing; otherwise size() drops by one and the oldest element is
\* removed, so that head() then returns the second-oldest element of the
\* prior state when there was one.
C6_PopUnderflow ==
    [][Pop =>
         LET failed == last'.err = "underflow_error" IN
         /\ failed <=> size(buf) = 0
         /\ failed => buf' = buf
         /\ size(buf) >= 1 =>
              /\ last'.err = "none"
              /\ size(buf') = size(buf) - 1
              /\ Contents(buf') = Tail(fifo)
         /\ size(buf) >= 2 =>
              /\ head(buf').err = "none"
              /\ buf'.c[head(buf').slot] = fifo[2]]_vars

C6_Witness ==
    /\ last.op = "pop"
    /\ last.err = "none"
    /\ buf._capacity = 3
    /\ size(buf) = 2
    /\ buf._head = 0
    /\ buf._tail = 1

\* C7: with size() == 0, head() and tail() report a failure instead of
\* returning a reference to a storage slot.
C7_EmptyAccessFails ==
    (last.op \in {"head", "tail"} /\ size(buf) = 0) => last.err # "none"

\* C8: push_back never fails: the index it writes to is always within
\* 0..Capacity-1, so c.at never throws inside the noexcept function.
C8_PushNeverFails ==
    /\ at_ok(buf, push_index(buf))
    /\ last.err # "terminate"

C8_Witness ==
    /\ last.op = "push_back"
    /\ last.err = "none"
    /\ buf._capacity = 3
    /\ buf._current = 1
    /\ buf._tail = 0
    /\ buf._head = 1
    /\ size(buf) = 3

\* C9: push_back on a full buffer advances head by one modulo Capacity and
\* keeps size at Capacity; on a buffer that is not full it adds one to size
\* and leaves head alone; either way tail is the index of the one slot
\* written, which holds the pushed value.
C9_PushEffect ==
    [][\A v \in Values :
         Push(v) =>
            /\ IF size(buf) = buf._capacity
               THEN /\ buf'._head = (buf._head + 1) % buf._capacity
                    /\ buf'._size = buf._capacity
               ELSE /\ buf'._size = buf._size + 1
                    /\ buf'._head = buf._head
            /\ at_ok(buf', buf'._tail)
            /\ buf'.c = [buf.c EXCEPT ![buf'._tail] = v]]_vars

C9_Witness ==
    /\ last.op = "push_back"
    /\ pure
    /\ Len(pushed) = buf._capacity + 1
    /\ buf._capacity = 3
    /\ buf._head = 1
    /\ buf._tail = 0

\* C10: two iterators obtained from begin() on the same unmodified buffer
\* compare equal at the start and whenever both have been advanced the same
\* number of times, and they then dereference to the same element.
C10_IterationDeterministic ==
    (Traversing /\ itN = jtN) =>
        /\ op_eq(it, jt)
        /\ op_eq(jt, it)
        /\ deref(it) = deref(jt)
        /\ at_ok(buf, deref(it))

C10_Witness ==
    /\ Traversing
    /\ buf._capacity = 3
    /\ itN = 3
    /\ jtN = 3
    /\ it._done
    /\ jt._done

\* C11: after construction and after every push_back, place_back and pop,
\* 0 <= _head < Capacity, 0 <= _tail < Capacity and 0 <= _current < Capacity.
C11_IndexRange ==
    /\ buf._head >= 0 /\ buf._head < buf._capacity
    /\ buf._tail >= 0 /\ buf._tail < buf._capacity
    /\ buf._current >= 0 /\ buf._current < buf._capacity

\* C11 as amended: _head and _tail are within 0..Capacity-1, and the stored
\* write cursor is within 0..Capacity: _current equals Capacity after the
\* push that wrote the last slot, until the next push resets it.
C11_IndexRangeAmended ==
    /\ buf._head >= 0 /\ buf._head < buf._capacity
    /\ buf._tail >= 0 /\ buf._tail < buf._capacity
    /\ buf._current >= 0 /\ buf._current <= buf._capacity

C11_Witness ==
    /\ last.op = "push_back"
    /\ buf._capacity = 3
    /\ buf._current = buf._capacity
    /\ buf._tail = 2
    /\ buf._head = 1

\* C12: 0 <= size() <= Capacity; empty() exactly when size() == 0 and full()
\* exactly when size() == Capacity; after n <= Capacity pushes into an empty
\* buffer size() == n.
C12_SizeInvariant ==
    /\ size(buf) >= 0
    /\ size(buf) <= capacity(buf)
    /\ empty(buf) <=> size(buf) = 0
    /\ full(buf) <=> size(buf) = capacity(buf)
    /\ (pure /\ Len(pushed) <= capacity(buf)) => size(buf) = Len(pushed)

C12_Witness ==
    /\ capacity(buf) = 3
    /\ pure
    /\ Len(pushed) = 3
    /\ full(buf)
    /\ buf._head = 1

\* C13: whenever size() > 0, tail == (head + size - 1) mod Capacity.
C13_HeadTailSize ==
    size(buf) > 0 =>
        buf._tail = (buf._head + buf._size - 1) % buf._capacity

C13_Witness ==
    /\ buf._capacity = 3
    /\ size(buf) = 2
    /\ buf._head = 2
    /\ buf._tail = 0
    /\ last.op = "pop"

\* C14: whenever size() == Capacity, the slot the next push_back writes to is
\* the slot _head denotes, however the full state was reached.
C14_FullOverwritesHead ==
    size(buf) = buf._capacity => push_index(buf) = buf._head

C14_Witness ==
    /\ buf._capacity = 3
    /\ size(buf) = 3
    /\ buf._head = 2
    /\ last.op = "place_back"
    /\ last.err = "none"

\* C15: once an iterator's _done flag is true, every further operator++
\* leaves it true.
C15_ExhaustedIsTerminal ==
    [][(LoopStep \/ Advance2) =>
         /\ it._done => it'._done
         /\ jt._done => jt'._done]_vars

\* the end() offset the parenthesised formula would give
IntendedEndOffset(b) == (b._tail + 1) % b._capacity

\* C16: the end() offset as the source computes it differs from
\* (tail + 1) mod Capacity whenever tail < Capacity - 1 and Capacity > 1.
C16_EndOffsetDiffers ==
    (buf._capacity > 1 /\ buf._tail < buf._capacity - 1) =>
        end(buf)._cursor # IntendedEndOffset(buf)

\* C16 as amended: the two offsets differ exactly when tail is the last
\* storage slot and Capacity > 1 (the source gives Capacity, the
\* parenthesised formula 0); for tail < Capacity - 1 they are equal.
C16_EndOffsetDiffersAtLastSlot ==
    end(buf)._cursor # IntendedEndOffset(buf)
        <=> (buf._capacity > 1 /\ buf._tail = buf._capacity - 1)

C16_Witness ==
    /\ buf._capacity = 3
    /\ buf._tail = 2
    /\ size(buf) = 2
    /\ Traversing
    /\ itN >= 1
    /\ end(buf)._cursor = 3

\* C17: an iterator obtained from begin() has its position within
\* 0..Capacity-1 at construction and after any number of advances, also when
\* push_back, place_back or pop calls are interleaved with the advances.
C17_IteratorInBounds ==
    pc # "idle" =>
        /\ at_ok(buf, deref(it))
        /\ at_ok(buf, deref(jt))
        /\ \A k \in 1..Len(yielded) : at_ok(buf, yielded[k])

C17_Witness ==
    /\ buf._capacity = 3
    /\ pc = "running"
    /\ muts >= 1
    /\ last.op = "pop"
    /\ itN >= 3
    /\ it._begin = 2
    /\ it._cursor = 2

\* C18: after every sequence of operations size() is the length of the
\* abstract FIFO and slot (head + i) mod Capacity holds its i-th element for
\* every i < size(); head() is its first and tail() its last element when it
\* is not empty.
C18_RefinesBoundedFifo ==
    /\ size(buf) = Len(fifo)
    /\ Len(fifo) <= buf._capacity
    /\ \A i \in 0..(size(buf) - 1) :
          buf.c[(buf._head + i) % buf._capacity] = fifo[i + 1]
    /\ size(buf) > 0 =>
          /\ head(buf).err = "none"
          /\ tail(buf).err = "none"
          /\ buf.c[head(buf).slot] = fifo[1]
          /\ buf.c[tail(buf).slot] = fifo[Len(fifo)]

C18_Witness ==
    /\ buf._capacity = 3
    /\ fifo = <<2, 1, 2>>
    /\ buf._head = 2
    /\ last.op = "push_back"
    /\ ~pure

\* C19: a successful pop changes only _head and _size: the storage, _tail
\* and _current keep their values; and a push_back into an empty buffer
\* writes at the slot _head denotes, so head() and tail() are both the
\* pushed value.
C19_PopFrame ==
    [][/\ (Pop /\ last'.err = "none") =>
            /\ buf'.c = buf.c
            /\ buf'._tail = buf._tail
            /\ buf'._current = buf._current
            /\ buf'._capacity = buf._capacity
       /\ \A v \in Values :
            (Push(v) /\ size(buf) = 0) =>
                /\ buf'._head = buf._head
                /\ head(buf').slot = tail(buf').slot
                /\ head(buf').err = "none"
                /\ buf'.c[buf'._head] = v]_vars

C19_Witness ==
    /\ buf._capacity = 3
    /\ last.op = "push_back"
    /\ size(buf) = 1
    /\ buf._head = 2
    /\ buf._tail = 2
    /\ pure

====
